---- MODULE Spec2Model ----
(***************************************************************************)
(* RSS-to-EPUB core of calibre-web-clone: the feed fetcher, the EPUB       *)
(* generator's file naming, and the scheduler (timer job, on-demand        *)
(* routes, registry writes).                                               *)
(*                                                                         *)
(* Coroutines run on one asyncio event loop: a coroutine keeps the loop    *)
(* until it reaches an `await` that suspends (a database call).  `loop`    *)
(* names the task that holds the event loop, or "none".                    *)
(***************************************************************************)
EXTENDS Integers, Sequences, FiniteSets, TLC

\* ------------------------------------------------------------------ bounds
NumFeeds == 2       \* rows of rss_feeds
MaxEntries == 2     \* entries of a feed document
MaxImages == 2      \* <img> tags in an entry's content
MaxNameTail == 2    \* characters after the padding of a name to sanitize
MaxBooks == 2       \* rows of rss_generated_books when the application starts

\* ------------------------------------------------------- program constants
DefaultMaxArticles == 20    \* scheduler.py:95  `feed.max_articles or 20`
FilenameLimit == 100        \* generator.py:267 `name[:100]`
ClientTimeout == 30          \* fetcher.py:35   `timeout: int = 30`
ImageTimeout == 15           \* fetcher.py:253  `timeout=15`
ConvertTimeout == 300        \* scheduler.py:205 `timeout=300`
CalibreTimeout == 60          \* scheduler.py:246 `timeout=60`
ContentThreshold == 500     \* fetcher.py:107   `len(content) < 500`
MaxImageBytes == 5 * 1024 * 1024    \* fetcher.py:259

\* A nullable integer column is <<>> (NULL) or <<n>>.
Null == <<>>
\* Python's None where a file path is expected.
None == [stem |-> <<>>, ext |-> ""]

FeedIds == 1..NumFeeds
\* The coroutines: the timer job (APScheduler runs one instance at a time)
\* and an on-demand request.
Requests == {"req"}
Tasks == {"timer"} \cup Requests

Min(a, b) == IF a < b THEN a ELSE b
Max(a, b) == IF a > b THEN a ELSE b

\* --------------------------------------------------------------- fetcher
\* A feed document as feedparser returns it: `parse` is "ok", "bozo" (the
\* bozo flag is set; entries may still have been recovered) or "raise"
\* (feedparser.parse itself raised).  An entry is what _process_entry makes
\* of it: "ok" (an Article), "nolink" (no link: returns None) or "raise".
EntryKinds == {"ok", "nolink", "raise"}

SeqsUpTo(S, n) == UNION {[1..k -> S] : k \in 0..n}

Docs == {[parse |-> p, entries |-> es] :
            p \in {"ok", "bozo"}, es \in SeqsUpTo(EntryKinds, MaxEntries)}
        \cup {[parse |-> "raise", entries |-> <<>>]}

\* Python's s[:n] for any integer n.
SlicePrefix(s, n) ==
    IF n >= 0 THEN SubSeq(s, 1, Min(n, Len(s)))
    ELSE SubSeq(s, 1, Max(Len(s) + n, 0))

\* _process_entry on the i-th entry: the Article (identified by the entry's
\* position in the document), None when the entry has no link, or an error.
_process_entry(kind, i) ==
    CASE kind = "nolink" -> [out |-> "none"]
      [] kind = "raise"  -> [out |-> "raise"]
      [] OTHER           -> [out |-> "article", article |-> i]

\* The per-entry `except Exception: ... continue`.
PerEntryExcept_reraise == "raise"
PerEntryExcept == "continue"

\* The slice the loop iterates: feed.entries[:max_articles].
EntriesSlice_offByOne(entries, max_articles) == SlicePrefix(entries, max_articles + 1)
EntriesSlice(entries, max_articles) == SlicePrefix(entries, max_articles)

RECURSIVE fetch_loop(_, _, _)
fetch_loop(entries, i, articles) ==
    IF i > Len(entries) THEN [raised |-> FALSE, articles |-> articles]
    ELSE LET r == _process_entry(entries[i], i) IN
         CASE r.out = "article" -> fetch_loop(entries, i + 1, Append(articles, r.article))
           [] r.out = "none"    -> fetch_loop(entries, i + 1, articles)
           [] OTHER ->
                IF PerEntryExcept = "continue"
                THEN fetch_loop(entries, i + 1, articles)
                ELSE [raised |-> TRUE, articles |-> articles]

\* The body of fetch_feed's outer `try`.
fetch_feed_try(doc, max_articles) ==
    IF doc.parse = "raise" THEN [raised |-> TRUE, articles |-> <<>>]
    ELSE IF doc.parse = "bozo" /\ doc.entries = <<>> THEN [raised |-> FALSE, articles |-> <<>>]
    ELSE fetch_loop(EntriesSlice(doc.entries, max_articles), 1, <<>>)

\* The outer `except Exception: ... return []`.
OuterExcept == [raised |-> FALSE, articles |-> <<>>]

\* RssFetcher.fetch_feed: whether it raised to its caller, and the list it
\* returned.
fetch_feed(doc, max_articles) ==
    LET r == fetch_feed_try(doc, max_articles) IN
    IF r.raised THEN OuterExcept ELSE r

\* ------------------------------------------------------ entry processing
\* A URL is a sequence of pieces of text.  "H" is a scheme and host
\* ("http://h/", "G" another), "?" starts the query, the other pieces are
\* path text.
Origins == {"H", "G"}
ImgUrls == {<<"p">>, <<"p", "?">>, <<"H", "p">>, <<"images/", "p", ".png">>}
ThumbUrls == {<<>>, <<"H", "p">>, <<"H", "t">>}

\* urllib.parse.urljoin(base_url, img_url) for a base that is a directory.
urljoin(base_url, img_url) ==
    IF img_url # <<>> /\ img_url[1] \in Origins THEN img_url ELSE base_url \o img_url

\* urlparse(url).path: the text before the query.
RECURSIVE UrlPath(_)
UrlPath(url) ==
    IF url = <<>> \/ Head(url) = "?" THEN <<>> ELSE <<Head(url)>> \o UrlPath(Tail(url))

Contains(q, x) == \E i \in DOMAIN q : q[i] = x

\* RssFetcher._get_image_extension.
_get_image_extension(url) ==
    LET path == UrlPath(url) IN
    IF Contains(path, ".png") THEN ".png"
    ELSE IF Contains(path, ".gif") THEN ".gif"
    ELSE IF Contains(path, ".webp") THEN ".webp"
    ELSE IF Contains(path, ".svg") THEN ".svg"
    ELSE ".jpg"

\* hashlib.md5(url.encode()).hexdigest()[:12]: twelve hex digits, a
\* different text for each of the URLs used here.
md5(url) ==
    CASE url = <<"p">>                          -> "83878c91171a"
      [] url = <<"p", "?">>                     -> "b3f2035551f6"
      [] url = <<"images/", "p", ".png">>       -> "4e0c2ba1e1a4"
      [] url = <<"H", "p">>                     -> "0cc175b9c0f1"
      [] url = <<"H", "p", "?">>                -> "92eb5ffee6ae"
      [] url = <<"H", "images/", "p", ".png">>  -> "4a8a08f09d37"
      [] url = <<"H", "t">>                     -> "e358efa489f5"
      [] url = <<"G", "p">>                     -> "8277e0910d75"
      [] OTHER                                  -> "d41d8cd98f00"

\* f"img_{url_hash}{ext}" and f"thumb_{url_hash}{ext}".
ImageFilename_ofImgUrl(prefix, img_url, absolute_url) ==
    <<prefix, md5(img_url), _get_image_extension(absolute_url)>>
ImageFilename(prefix, img_url, absolute_url) ==
    <<prefix, md5(absolute_url), _get_image_extension(absolute_url)>>

\* f"images/{filename}".
LocalRef(filename) == <<"images/">> \o filename

\* What a GET of an image URL answers: a body of MaxImageBytes ("ok"), a
\* larger body ("big"), or a failure (status, connection, no image).
Responses == {"ok", "big", "error"}
ResponseSize(r) == IF r = "big" THEN MaxImageBytes + 1 ELSE MaxImageBytes

\* RssFetcher._download_image: TRUE when it returns image data.
_download_image(r) ==
    IF r = "error" THEN FALSE
    ELSE IF ResponseSize(r) > MaxImageBytes THEN FALSE
    ELSE TRUE

IsPrefix(a, b) == Len(a) <= Len(b) /\ SubSeq(b, 1, Len(a)) = a

\* str.replace(old, new) on one piece of the content.
RECURSIVE StrReplace(_, _, _)
StrReplace(str, old, new) ==
    IF str = <<>> \/ old = <<>> THEN str
    ELSE IF IsPrefix(old, str)
         THEN new \o StrReplace(SubSeq(str, Len(old) + 1, Len(str)), old, new)
         ELSE <<Head(str)>> \o StrReplace(Tail(str), old, new)

\* `old in str`.
RECURSIVE StrIn(_, _)
StrIn(old, str) ==
    IF IsPrefix(old, str) THEN TRUE
    ELSE IF str = <<>> THEN FALSE
    ELSE StrIn(old, Tail(str))

\* content.replace(old, new), the content being the src of each <img> tag
\* in order.
ContentReplace(srcs, old, new) == [i \in DOMAIN srcs |-> StrReplace(srcs[i], old, new)]

\* RssFetcher._process_images: the loop over the img_pattern matches.
\* `names` keeps, for each match, the filename its image was stored under
\* (empty when the image was not stored).
RECURSIVE _process_images_loop(_, _, _, _, _, _)
_process_images_loop(matches, srcs, images, names, base_url, web) ==
    IF matches = <<>> THEN [srcs |-> srcs, images |-> images, names |-> names]
    ELSE LET img_url == Head(matches)
             absolute_url == urljoin(base_url, img_url)
             filename == ImageFilename("img_", img_url, absolute_url)
         IN  IF _download_image(web[absolute_url])
             THEN _process_images_loop(Tail(matches),
                                       ContentReplace(srcs, img_url, LocalRef(filename)),
                                       images \cup {filename}, Append(names, filename),
                                       base_url, web)
             ELSE _process_images_loop(Tail(matches), srcs, images, Append(names, <<>>),
                                       base_url, web)

_process_images(srcs, base_url, web) ==
    _process_images_loop(srcs, srcs, {}, <<>>, base_url, web)

\* The GET requests one call of _download_image makes for a URL the web
\* answers with r: client.get is called once, outside any loop, and a
\* failure returns None.
Gets_retryFailed(r) == IF _download_image(r) THEN 1 ELSE 2
Gets(r) == 1

Repeat(url, n) == [i \in 1..n |-> url]

\* The URLs requested by the _download_image calls of _process_images, in
\* order: one call for every match of the img pattern.
RECURSIVE ImageRequests(_, _, _)
ImageRequests(matches, base_url, web) ==
    IF matches = <<>> THEN <<>>
    ELSE LET absolute_url == urljoin(base_url, Head(matches))
         IN  Repeat(absolute_url, Gets(web[absolute_url]))
                \o ImageRequests(Tail(matches), base_url, web)

\* A key the dict does not have.
Absent == "absent"
\* What _extract_thumbnail returns when it finds nothing.
NoUrl == "None"

\* int(x.get("width", 0) or 0): the widths are the texts feedparser gives.
NumericWidths == {"100", "200"}
IntWidth(w) == CASE w = "100" -> 100 [] w = "200" -> 200 [] OTHER -> 0
WidthRaises(w) == w \notin NumericWidths \cup {Absent, ""}

\* max(thumbnails, key=...): the first item whose key is the largest.
MaxWidthIndex(thumbnails) ==
    CHOOSE i \in DOMAIN thumbnails :
        /\ \A j \in DOMAIN thumbnails :
              IntWidth(thumbnails[j].width) <= IntWidth(thumbnails[i].width)
        /\ \A j \in 1..(i - 1) :
              IntWidth(thumbnails[j].width) < IntWidth(thumbnails[i].width)

\* `"image" in type` and type.startswith("image/"), for the types used here.
ImageTypes == {"image/png", "image/jpeg"}

\* The first item of the list the test accepts, 0 when there is none.
FirstIndex(items, Test(_)) ==
    IF \E i \in DOMAIN items : Test(items[i])
    THEN CHOOSE i \in DOMAIN items : Test(items[i]) /\ \A j \in 1..(i - 1) : ~Test(items[j])
    ELSE 0

\* A value a return statement hands back: an absent key (.get) is None.
Returned(v) == IF v = Absent THEN NoUrl ELSE v

\* RssFetcher._extract_thumbnail.
_extract_thumbnail_links(entry) ==
    LET IsImage(link) == link.type \in ImageTypes
        i == FirstIndex(entry.links, IsImage)
    IN  IF i # 0 THEN Returned(entry.links[i].href) ELSE NoUrl

_extract_thumbnail_summary(entry) ==
    LET HasSrc(img) == img # Absent
        i == FirstIndex(entry.summary, HasSrc)
    IN  IF i # 0 THEN entry.summary[i] ELSE _extract_thumbnail_links(entry)

_extract_thumbnail_enclosures(entry) ==
    LET IsImage(enc) == enc.type \in ImageTypes
        i == FirstIndex(entry.enclosures, IsImage)
    IN  IF i # 0
        THEN Returned(IF entry.enclosures[i].href # Absent
                      THEN entry.enclosures[i].href ELSE entry.enclosures[i].url)
        ELSE _extract_thumbnail_summary(entry)

_extract_thumbnail_media_content(entry) ==
    LET IsImage(media) == media.medium = "image" \/ media.type \in ImageTypes
        i == FirstIndex(entry.media_content, IsImage)
    IN  IF i # 0 THEN Returned(entry.media_content[i].url)
        ELSE _extract_thumbnail_enclosures(entry)

_extract_thumbnail(entry) ==
    LET thumbnails == entry.media_thumbnail IN
    IF thumbnails # <<>>
    THEN IF \E i \in DOMAIN thumbnails : WidthRaises(thumbnails[i].width)
         THEN "ValueError"
         ELSE LET best == thumbnails[MaxWidthIndex(thumbnails)]
              IN  IF best.url # Absent THEN best.url
                  ELSE _extract_thumbnail_media_content(entry)
    ELSE _extract_thumbnail_media_content(entry)

\* The feedparser entries _extract_thumbnail is applied to: each source is
\* missing, present with a URL, or present without one.
Thumbnail(width, url) == [width |-> width, url |-> url]
Media(medium, type, url) == [medium |-> medium, type |-> type, url |-> url]
Enclosure(type, href, url) == [type |-> type, href |-> href, url |-> url]
Link(type, href) == [type |-> type, href |-> href]

MediaThumbnails ==
    {<<>>,
     <<Thumbnail("100", "mt1")>>,
     <<Thumbnail("100", "mt1"), Thumbnail("200", "mt2")>>,
     <<Thumbnail("200", Absent), Thumbnail("100", "mt1")>>,
     <<Thumbnail(Absent, "mt1"), Thumbnail("", "mt2")>>,
     <<Thumbnail("100px", "mt1")>>}
MediaContents ==
    {<<>>,
     <<Media("image", "", "mc")>>,
     <<Media(Absent, "video/mp4", "v"), Media(Absent, "image/png", "mc")>>,
     <<Media("image", "", Absent)>>,
     <<Media("video", "video/mp4", "v")>>}
EnclosureLists ==
    {<<>>,
     <<Enclosure("image/png", "enc", Absent)>>,
     <<Enclosure("audio/mpeg", "a", Absent), Enclosure("image/jpeg", Absent, "enc")>>,
     <<Enclosure("image/png", Absent, Absent)>>}
Summaries == {<<>>, <<Absent>>, <<"img">>, <<Absent, "img">>}
LinkLists ==
    {<<>>,
     <<Link("text/html", "page")>>,
     <<Link("text/html", "page"), Link("image/png", "lnk")>>,
     <<Link("image/png", Absent)>>}

ParsedEntries ==
    [media_thumbnail : MediaThumbnails, media_content : MediaContents,
     enclosures : EnclosureLists, summary : Summaries, links : LinkLists]

\* fetcher.py:107: `if len(content) < 500`.
needs_full_article_always(length) == TRUE
needs_full_article(length) == length < ContentThreshold

\* RssFetcher._fetch_full_article: the page's content, or None when the
\* request fails or readability extracts nothing.
PageOutcomes == {"ok", "empty", "error"}
_fetch_full_article(e) ==
    IF e.page = "ok"
    THEN [origin |-> "page", length |-> 4 * ContentThreshold, srcs |-> e.srcs]
    ELSE [origin |-> "none", length |-> 0, srcs |-> <<>>]

\* The content the feed gives for the entry: its length and its <img> tags.
FeedContent(e) ==
    [origin |-> "feed", length |-> e.length, srcs |-> IF e.length = 0 THEN <<>> ELSE e.srcs]

\* The absolute URLs _process_entry may download for an entry.
EntryUrls(e) ==
    {urljoin(e.link, e.srcs[i]) : i \in DOMAIN e.srcs} \cup ({e.thumbnail} \ {<<>>})

\* RssFetcher._process_entry on an entry with a link: the Article's content
\* and image map, the image URLs it requested and the number of page
\* requests it made.
ProcessEntry(e, web) ==
    LET feed == FeedContent(e)
        fetch == needs_full_article(feed.length)
        full_content == _fetch_full_article(e)
        content == IF fetch /\ full_content.length > 0 THEN full_content ELSE feed
        processed == IF content.length > 0
                     THEN _process_images(content.srcs, e.link, web)
                     ELSE [srcs |-> content.srcs, images |-> {}, names |-> <<>>]
        thumb_filename == ImageFilename("thumb_", e.thumbnail, e.thumbnail)
        thumb_data == e.thumbnail # <<>> /\ _download_image(web[e.thumbnail])
        prepend == /\ thumb_data
                   /\ \A i \in DOMAIN processed.srcs :
                         /\ ~StrIn(thumb_filename, processed.srcs[i])
                         /\ ~StrIn(e.thumbnail, processed.srcs[i])
    IN  [origin |-> content.origin,
         length |-> content.length,
         matches |-> content.srcs,
         names |-> processed.names,
         srcs |-> IF prepend THEN <<LocalRef(thumb_filename)>> \o processed.srcs
                  ELSE processed.srcs,
         thumb |-> prepend,
         images |-> processed.images \cup (IF thumb_data THEN {thumb_filename} ELSE {}),
         requests |-> (IF content.length > 0
                       THEN ImageRequests(content.srcs, e.link, web) ELSE <<>>)
                      \o (IF e.thumbnail # <<>>
                          THEN Repeat(e.thumbnail, Gets(web[e.thumbnail])) ELSE <<>>),
         fetches |-> IF fetch THEN 1 ELSE 0]

FeedLengths == {0, 50, ContentThreshold - 1, ContentThreshold}

Entries ==
    {[link |-> <<"H">>, length |-> n, page |-> pg, srcs |-> srcs, thumbnail |-> th] :
        n \in FeedLengths, pg \in PageOutcomes,
        srcs \in SeqsUpTo(ImgUrls, MaxImages), th \in ThumbUrls}

\* ------------------------------------------------------------- generator
\* Strings are sequences of one-character strings.
IllegalChars == {"<", ">", ":", "\"", "/", "\\", "|", "?", "*"}
SpaceDash == {" ", "-"}
AsciiChars == {"V", "n", "T", "_", ".", "0", "1", "2", "3", "4", "5", "6", "7", "8", "9"}
                \cup IllegalChars \cup SpaceDash

RemoveChars(s, bad) == SelectSeq(s, LAMBDA c : c \notin bad)

\* re.sub(r'[\s\-]+', '_', name): every maximal run becomes one underscore.
\* (The last character of a run is kept, as the underscore.)
CollapseRuns(s) ==
    LET marked == [i \in DOMAIN s |->
                     [ch |-> IF s[i] \in SpaceDash THEN "_" ELSE s[i],
                      keep |-> ~(s[i] \in SpaceDash /\ i < Len(s) /\ s[i + 1] \in SpaceDash)]]
        kept == SelectSeq(marked, LAMBDA m : m.keep)
    IN  [i \in DOMAIN kept |-> kept[i].ch]

RECURSIVE LStrip(_)
LStrip(s) == IF s # <<>> /\ Head(s) = "_" THEN LStrip(Tail(s)) ELSE s

RECURSIVE RStrip(_)
RStrip(s) == IF s # <<>> /\ s[Len(s)] = "_" THEN RStrip(SubSeq(s, 1, Len(s) - 1)) ELSE s

_sanitize_filename_stripFirst(name) ==
    LET a == RemoveChars(name, IllegalChars)
        b == CollapseRuns(a)
        c == SelectSeq(b, LAMBDA ch : ch \in AsciiChars)
        d == LStrip(RStrip(c))
    IN  SubSeq(d, 1, Min(FilenameLimit, Len(d)))
_sanitize_filename(name) ==
    LET a == RemoveChars(name, IllegalChars)
        b == CollapseRuns(a)
        c == SelectSeq(b, LAMBDA ch : ch \in AsciiChars)
        d == SubSeq(c, 1, Min(FilenameLimit, Len(c)))
    IN  LStrip(RStrip(d))

\* The names _sanitize_filename is tried on: a run of "n" up to the length
\* limit, then a few characters, among them an underscore, a space, a dash,
\* an illegal character and a non-ASCII letter.
NameChars == {"V", "_", " ", "-", "/", "U+00E9"}
Padding(k) == [i \in 1..k |-> "n"]
Names ==
    {Padding(k) \o tail :
        k \in {0, FilenameLimit - 2, FilenameLimit - 1, FilenameLimit},
        tail \in UNION {[1..m -> NameChars] : m \in 0..MaxNameTail}}

\* Dates are days of one month; strftime renders them.
Digits == <<"1", "2", "3", "4", "5", "6", "7", "8", "9">>
StrfDMY(d) == <<"0", Digits[d], "/", "1", "1", "/", "2", "0", "2", "5">>  \* '%d/%m/%Y'
StrfYMD(d) == <<"2", "0", "2", "5", "1", "1", "0", Digits[d]>>            \* '%Y%m%d'

IsoFormat(d) == <<"2", "0", "2", "5", "-", "1", "1", "-", "0", Digits[d]>>  \* isoformat()

\* scheduler.py:103: the book title.
Title(name, d) == name \o <<" ", "-", " ">> \o StrfDMY(d)

\* generator.py:111-112: the output file; a file is its stem and extension.
EpubFile(title, d) ==
    [stem |-> _sanitize_filename(title) \o <<"_">> \o StrfYMD(d), ext |-> "epub"]

\* scheduler.py:195: epub_path.replace('.epub', '.mobi').
MobiFile(epub) == [stem |-> epub.stem, ext |-> "mobi"]


\* -------------------------------------------------------------- registry
\* Columns of RssGeneratedBook (models/rss_feed.py).
RssGeneratedBookColumns ==
    {"id", "feed_id", "title", "filename", "file_path", "file_size",
     "article_count", "generation_date", "calibre_book_id", "created_at"}

\* Keyword arguments generate_feed passes to the RssGeneratedBook constructor.
GeneratedBookKwargs ==
    {"feed_id", "title", "filename", "file_path", "file_size", "mobi_filename",
     "mobi_file_path", "mobi_file_size", "article_count", "generation_date"}

\* The declarative constructor: it sets each keyword argument that names an
\* attribute of the mapped class and raises TypeError for any other.
RssGeneratedBook_init(kwargs) == kwargs \subseteq RssGeneratedBookColumns

\* Name and max_articles of each configured feed (rss_feeds), by id.
FeedName(f) ==
    CASE f = 1 -> <<"V", "n">>
      [] f = 2 -> <<"T", "-", "T">>
      [] OTHER -> <<"n", " ", "V">>

FeedUrl(f) == <<"H", "rss", f>>
FeedUrls == {FeedUrl(f) : f \in FeedIds}

FeedMaxArticles(f) ==
    CASE f = 1 -> <<1>>
      [] f = 2 -> Null
      [] OTHER -> <<0>>

\* scheduler.py:95: `feed.max_articles or 20`.
MaxArticlesArg(max_articles) ==
    IF max_articles = Null \/ max_articles[1] = 0
    THEN DefaultMaxArticles
    ELSE max_articles[1]

\* scheduler.py:97: `if not articles`.
articles_empty_never(n) == FALSE
articles_empty(n) == n = 0

\* EpubGenerator.generate: None for an empty list or when assembling or
\* writing raised (caught inside generate), else the file it wrote.
generate(n, title, d, write_ok) ==
    IF n = 0 THEN None
    ELSE IF write_ok THEN EpubFile(title, d) ELSE None

\* f"{index:03d}": the decimal digits, padded with zeros to three.
Digit(k) == IF k = 0 THEN "0" ELSE Digits[k]
RECURSIVE Decimal(_)
Decimal(n) == IF n < 10 THEN <<Digit(n)>> ELSE Decimal(n \div 10) \o <<Digit(n % 10)>>
RECURSIVE ZeroPad(_, _)
ZeroPad(s, width) == IF Len(s) >= width THEN s ELSE ZeroPad(<<"0">> \o s, width)

\* EpubGenerator._create_chapter: the chapter's file name and title.
_create_chapter_byTitle(article, index) ==
    [file_name |-> <<"chapter_">> \o article.title \o <<".xhtml">>,
     title |-> article.title]
_create_chapter(article, index) ==
    [file_name |-> <<"chapter_">> \o ZeroPad(Decimal(index), 3) \o <<".xhtml">>,
     title |-> article.title]

\* generator.py:59-75: all_images.update(article.images) over the articles,
\* then one EpubItem for each key.
AllImages(articles) == UNION {articles[i].images : i \in DOMAIN articles}
ImageItem(filename) ==
    [uid |-> <<"image_">> \o filename, file_name |-> LocalRef(filename)]

\* The EpubBook generate assembles (generator.py:46-107).
EpubBook(articles, title, d) ==
    LET chapters == [i \in DOMAIN articles |-> _create_chapter(articles[i], i)] IN
    [identifier |-> <<"rss-">> \o _sanitize_filename(title) \o <<"-">> \o IsoFormat(d),
     items |-> {ImageItem(f) : f \in AllImages(articles)},
     chapters |-> chapters,
     toc |-> chapters,
     spine |-> <<"nav">> \o [i \in DOMAIN chapters |-> chapters[i].file_name]]

\* The entries a book is made from: the i-th article's page is on site
\* BookLinks(i); its content is long enough to be used as it is.
ArticleTitles == {<<"T">>, <<"U">>}
BookImgUrls == {<<"p">>, <<"H", "p">>}
BookSrcs ==
    {<<>>} \cup {<<u>> : u \in BookImgUrls} \cup {<<u, v>> : u, v \in BookImgUrls}
BookLinks(i) == IF i % 2 = 1 THEN <<"H">> ELSE <<"G">>
BookEntries(i) ==
    {[title |-> t, link |-> BookLinks(i), length |-> ContentThreshold, page |-> "error",
      srcs |-> srcs, thumbnail |-> <<>>] :
        t \in ArticleTitles, srcs \in BookSrcs}
BookUrls == {urljoin(BookLinks(i), u) : i \in 1..2, u \in BookImgUrls}
BookWebs == [BookUrls -> {"ok", "error"}]

\* _convert_to_mobi: the MOBI path when ebook-convert exits 0 and the file
\* exists, None on a non-zero exit, a timeout or any other error.
ConvertOutcomes == {"ok", "nonzero", "timeout", "error"}
_convert_to_mobi(epub, outcome) == IF outcome = "ok" THEN MobiFile(epub) ELSE None

\* The article counts fetch_feed can return for a cap, over every document.
Caps == {MaxArticlesArg(FeedMaxArticles(f)) : f \in FeedIds}
FetchCounts == [cap \in Caps |-> {Len(fetch_feed(doc, cap).articles) : doc \in Docs}]

\* ----------------------------------------------------------------- state
VARIABLES
    feeds,      \* rss_feeds: id -> [name, url, max_articles, enabled]
    registry,   \* committed rows of rss_generated_books
    disk,       \* files in the output directory
    today,      \* date.today()
    running,    \* AsyncIOScheduler.running
    jobs,       \* jobs registered with the AsyncIOScheduler
    loop,       \* the task that holds the event loop, or "none"
    pc,         \* task -> where its coroutine is
    kind,       \* task -> "timer" | "all" | "single"
    sel,        \* task -> the feeds _generate_all_feeds selected
    queue,      \* task -> feeds the for loop has still to visit
    cur,        \* task -> the feed generate_feed is running for
    call,       \* task -> the generate_feed call in progress
    last,       \* task -> the generate_feed call that finished last
    log,        \* task -> feed and result of each finished call of this run
    files,      \* task -> generated_files
    exc,        \* task -> where the run's last exception ended
    session,    \* task -> the AsyncSession's uncommitted work
    preview,    \* the last answer of GET /api/rss/preview/{feed_id}
    entry,      \* the feed entry _process_entry ran on last, and its Article
    book,       \* the articles generate ran on last, and the EpubBook it built
    admin,      \* the feed and book management request in progress or answered
    name        \* the string _sanitize_filename ran on last, and its result

vars == <<feeds, registry, disk, today, running, jobs, loop, pc, kind, sel,
          queue, cur, call, last, log, files, exc, session, preview, entry, book,
          admin, name>>

store == <<feeds, registry, disk, today>>
sched == <<running, jobs>>
tasks == <<loop, pc, kind, sel, queue, cur, call, last, log, files, exc, session>>
views == <<preview, entry, book, admin, name>>

NoCall == [feed |-> 0]
EmptySession == [deleted |-> {}, added |-> {}]
NoPreview == [feed |-> 0]
NoEntry == [entry |-> "none"]
NoBook == [title |-> <<>>]
NoAdmin == [op |-> "none"]
Clients == {"c1", "c2"}
Answer(op, status, oserror) == [op |-> op, status |-> status, oserror |-> oserror]
NoName == [calls |-> 0]
\* Rows of rss_generated_books the database holds when the application
\* starts: row i records the book generated for feed f on day 1.
BookRow(i, f) ==
    [id |-> i, feed_id |-> f,
     filename |-> EpubFile(Title(FeedName(f), 1), 1),
     file_path |-> EpubFile(Title(FeedName(f), 1), 1),
     article_count |-> 1, generation_date |-> 1, calibre_book_id |-> Null]
BookRows == {BookRow(i, f) : i \in 1..MaxBooks, f \in FeedIds}

\* models/rss_feed.py:25 and 28: id is the primary key, filename is unique.
InitRegistries_anyFilename ==
    {rs \in SUBSET BookRows : \A r1, r2 \in rs : r1 # r2 => r1.id # r2.id}
InitRegistries ==
    {rs \in SUBSET BookRows :
        \A r1, r2 \in rs : r1 # r2 => (r1.id # r2.id /\ r1.filename # r2.filename)}

\* getattr(book, attr): AttributeError unless the class has the attribute.
HasAttr(attr) == attr \in RssGeneratedBookColumns


\* The recurring job start() registers.
Times == {<<6, 0>>, <<18, 30>>}
Job(hour, minute) == [id |-> "rss_daily_generation", hour |-> hour, minute |-> minute]

InitTasks ==
    /\ loop = "none"
    /\ pc = [t \in Tasks |-> "idle"]
    /\ kind = [t \in Tasks |-> IF t = "timer" THEN "timer" ELSE "all"]
    /\ sel = [t \in Tasks |-> <<>>]
    /\ queue = [t \in Tasks |-> <<>>]
    /\ cur = [t \in Tasks |-> 0]
    /\ call = [t \in Tasks |-> NoCall]
    /\ last = [t \in Tasks |-> NoCall]
    /\ log = [t \in Tasks |-> <<>>]
    /\ files = [t \in Tasks |-> <<>>]
    /\ exc = [t \in Tasks |-> "none"]
    /\ session = [t \in Tasks |-> EmptySession]

\* The enabled flags the feeds are configured with: every feed enabled, every
\* feed but the last, or none.
EnabledChoices ==
    {[f \in FeedIds |-> TRUE], [f \in FeedIds |-> f # NumFeeds], [f \in FeedIds |-> FALSE]}

InitStore ==
    /\ \E en \in EnabledChoices :
          feeds = [f \in FeedIds |->
                     [name |-> FeedName(f), url |-> FeedUrl(f),
                      max_articles |-> FeedMaxArticles(f),
                      enabled |-> en[f]]]
    /\ registry = {}
    /\ disk = {}
    /\ today = 1
    /\ preview = NoPreview
    /\ entry = NoEntry
    /\ book = NoBook
    /\ admin = [c \in Clients |-> NoAdmin]
    /\ name = NoName

\* ------------------------------------------------------------- scheduler
\* BaseScheduler.add_job(..., id=..., replace_existing=True).
add_job_keep_existing(js, job) == js \cup {job}
add_job(js, job) == {j \in js : j.id # job.id} \cup {job}

\* RssScheduler.start: add_job, then AsyncIOScheduler.start() (which raises
\* SchedulerAlreadyRunningError, after the job was replaced, when the
\* scheduler is running).
start(hour, minute) ==
    /\ loop = "none"
    /\ jobs' = add_job(jobs, Job(hour, minute))
    /\ running' = TRUE
    /\ UNCHANGED <<store, views, loop, pc, kind, sel, queue, cur, call, last,
                   log, files, exc, session>>

\* AsyncIOScheduler.shutdown(): the state becomes stopped and the job store
\* drops its jobs.
shutdown(r) == FALSE

\* AsyncIOScheduler.shutdown() shuts its AsyncIOExecutor down, which either
\* cancels the task of a job coroutine that is still awaiting or leaves it,
\* depending on the APScheduler installed.
ExecutorShutdown == {"cancel", "leave"}
Awaiting(t) == pc[t] \in {"select_feeds", "delete"}

\* RssScheduler.stop.
stop ==
    /\ loop = "none"
    /\ IF running
       THEN /\ running' = shutdown(running)
            /\ jobs' = {}
            /\ \E executor \in ExecutorShutdown :
                  exc' = IF executor = "cancel" /\ Awaiting("timer")
                         THEN [exc EXCEPT !["timer"] = "cancelling"]
                         ELSE exc
       ELSE UNCHANGED <<running, jobs, exc>>
    /\ UNCHANGED <<store, views, loop, pc, kind, sel, queue, cur, call, last,
                   log, files, session>>

\* The cancelled task is resumed: CancelledError is raised at its await,
\* passes `except Exception` (it is a BaseException) and reaches the
\* wrapper's `finally: await db.close()`.
Cancelled(t) ==
    /\ loop = "none"
    /\ exc[t] = "cancelling"
    /\ pc' = [pc EXCEPT ![t] = "close"]
    /\ exc' = [exc EXCEPT ![t] = "cancelled"]
    /\ UNCHANGED <<store, sched, views, loop, kind, sel, queue, cur, call, last,
                   log, files, session>>

\* The cron trigger is due and the job has no running instance.
TimerCanFire == running /\ jobs # {} /\ pc["timer"] = "idle" /\ loop = "none"

\* A coroutine starts: nothing selected, nothing logged, a new session.
Begin(t, k, firstpc) ==
    /\ pc' = [pc EXCEPT ![t] = firstpc]
    /\ kind' = [kind EXCEPT ![t] = k]
    /\ sel' = [sel EXCEPT ![t] = <<>>]
    /\ queue' = [queue EXCEPT ![t] = <<>>]
    /\ last' = [last EXCEPT ![t] = NoCall]
    /\ log' = [log EXCEPT ![t] = <<>>]
    /\ files' = [files EXCEPT ![t] = <<>>]
    /\ exc' = [exc EXCEPT ![t] = "none"]
    /\ session' = [session EXCEPT ![t] = EmptySession]

\* APScheduler runs the job: _scheduled_generation_wrapper opens a session
\* and awaits _generate_all_feeds, which awaits the select of the feeds.
TimerFire ==
    /\ TimerCanFire
    /\ Begin("timer", "timer", "select_feeds")
    /\ UNCHANGED <<store, sched, views, loop, cur, call>>

\* POST /api/rss/generate: generate_now -> _generate_all_feeds.
generate_all(r) ==
    /\ loop = "none"
    /\ pc[r] = "idle"
    /\ Begin(r, "all", "select_feeds")
    /\ UNCHANGED <<store, sched, views, loop, cur, call>>

\* POST /api/rss/generate/{feed_id}: awaits the select of the feed.
generate_single(r, feed_id) ==
    /\ loop = "none"
    /\ pc[r] = "idle"
    /\ Begin(r, "single", "select_feed")
    /\ cur' = [cur EXCEPT ![r] = feed_id]
    /\ UNCHANGED <<store, sched, views, loop, call>>

\* ---------------------------------------------------- exception handlers
\* _generate_all_feeds: `except Exception: ... continue` around generate_feed.
FeedExcept_reraise == "raise"
FeedExcept == "continue"

\* EpubGenerator.generate: `except Exception: ... return None` around the
\* assembling and the writing of the book.
GenerateExcept_reraise == "raise"
GenerateExcept == "caught"

\* _scheduled_generation_wrapper: `except Exception` around _generate_all_feeds.
WrapperExcept_reraise == "raise"
WrapperExcept == "caught"

\* Where an exception that leaves _generate_all_feeds ends: in the timer
\* job's handler (then `finally: await db.close()`), or out of the route.
EscapeAll(t) ==
    IF kind[t] = "timer" /\ WrapperExcept = "caught"
    THEN [pc |-> "close", exc |-> "job"]
    ELSE [pc |-> "done", exc |-> "out"]

\* _generate_all_feeds returns generated_files.
ReturnAll(t) == IF kind[t] = "timer" THEN "close" ELSE "done"

Holder(t, nextpc) == IF nextpc \in {"loop", "feed"} THEN t ELSE "none"

\* generate_feed returned `res` (None or the path) to its caller.
FeedReturn(t, rec, res) ==
    LET nextpc == IF kind[t] = "single" THEN "done" ELSE "loop"
        r == IF res = None THEN "none" ELSE "path"
    IN
    /\ last' = [last EXCEPT ![t] = [rec EXCEPT !.res = r]]
    /\ log' = [log EXCEPT ![t] = Append(@, [feed |-> rec.feed, res |-> r, path |-> res])]
    /\ files' = [files EXCEPT ![t] = IF res = None THEN @ ELSE Append(@, res)]
    /\ call' = [call EXCEPT ![t] = NoCall]
    /\ pc' = [pc EXCEPT ![t] = nextpc]
    /\ loop' = Holder(t, nextpc)
    /\ UNCHANGED exc

\* generate_feed raised `err`.
FeedRaise(t, rec, err) ==
    LET next == IF kind[t] = "single" THEN [pc |-> "done", exc |-> "out"]
                ELSE IF FeedExcept = "continue" THEN [pc |-> "loop", exc |-> "feed"]
                ELSE EscapeAll(t)
    IN
    /\ last' = [last EXCEPT ![t] = [rec EXCEPT !.res = "error", !.err = err]]
    /\ log' = [log EXCEPT ![t] = Append(@, [feed |-> rec.feed, res |-> "error", path |-> None])]
    /\ call' = [call EXCEPT ![t] = NoCall]
    /\ pc' = [pc EXCEPT ![t] = next.pc]
    /\ exc' = [exc EXCEPT ![t] = next.exc]
    /\ loop' = Holder(t, next.pc)
    /\ UNCHANGED files

\* ------------------------------------------------------ generation steps
Perms(S) == {q \in [1..Cardinality(S) -> S] : \A i, j \in DOMAIN q : i # j => q[i] # q[j]}

\* scheduler.py:161: `select(RssFeed).where(RssFeed.enabled == True)`.
enabled_feeds_all(table) == DOMAIN table
enabled_feeds(table) == {f \in DOMAIN table : table[f].enabled}

\* _generate_all_feeds after `await db.execute(select ... enabled == True)`:
\* the select raised, or it returned the enabled feeds in the store's order.
SelectFeeds(t) ==
    /\ loop = "none"
    /\ pc[t] = "select_feeds"
    /\ exc[t] # "cancelling"
    /\ \E db_ok \in BOOLEAN, order \in Perms(enabled_feeds(feeds)) :
          IF ~db_ok
          THEN /\ pc' = [pc EXCEPT ![t] = EscapeAll(t).pc]
               /\ exc' = [exc EXCEPT ![t] = EscapeAll(t).exc]
               /\ loop' = "none"
               /\ UNCHANGED <<sel, queue>>
          ELSE /\ sel' = [sel EXCEPT ![t] = order]
               /\ queue' = [queue EXCEPT ![t] = order]
               /\ IF order = <<>>
                  THEN pc' = [pc EXCEPT ![t] = ReturnAll(t)] /\ loop' = "none"
                  ELSE pc' = [pc EXCEPT ![t] = "loop"] /\ loop' = t
               /\ UNCHANGED exc
    /\ UNCHANGED <<store, sched, views, kind, cur, call, last, log, files, session>>

\* The head of `for feed in feeds`.
NextFeed(t) ==
    /\ loop = t
    /\ pc[t] = "loop"
    /\ last' = [last EXCEPT ![t] = NoCall]
    /\ IF queue[t] = <<>>
       THEN /\ pc' = [pc EXCEPT ![t] = ReturnAll(t)]
            /\ loop' = "none"
            /\ sel' = [sel EXCEPT ![t] = <<>>]
            /\ log' = [log EXCEPT ![t] = <<>>]
            /\ cur' = [cur EXCEPT ![t] = 0]
            /\ UNCHANGED queue
       ELSE /\ cur' = [cur EXCEPT ![t] = Head(queue[t])]
            /\ queue' = [queue EXCEPT ![t] = Tail(@)]
            /\ pc' = [pc EXCEPT ![t] = "feed"]
            /\ loop' = t
            /\ UNCHANGED <<sel, log>>
    /\ UNCHANGED <<store, sched, views, kind, call, files, exc, session>>

\* generate_single after its select: the select raised, the feed is unknown
\* (404), or generate_feed is called.
SelectFeed(t) ==
    /\ loop = "none"
    /\ pc[t] = "select_feed"
    /\ \E db_ok \in BOOLEAN :
          IF ~db_ok
          THEN pc' = [pc EXCEPT ![t] = "done"] /\ exc' = [exc EXCEPT ![t] = "out"]
               /\ loop' = "none"
          ELSE IF cur[t] \notin FeedIds
          THEN pc' = [pc EXCEPT ![t] = "done"] /\ exc' = [exc EXCEPT ![t] = "http404"]
               /\ loop' = "none"
          ELSE pc' = [pc EXCEPT ![t] = "feed"] /\ loop' = t /\ UNCHANGED exc
    /\ UNCHANGED <<store, sched, views, kind, sel, queue, cur, call, last, log,
                   files, session>>

\* generate_feed from its first line to its first suspension: fetch, the
\* empty check, generate, getsize, _convert_to_mobi, then
\* `await db.execute(delete ...)`.
generate_feed(t) ==
    /\ loop = t
    /\ pc[t] = "feed"
    /\ \E n \in FetchCounts[MaxArticlesArg(feeds[cur[t]].max_articles)] :
          LET feed == feeds[cur[t]]
              title == Title(feed.name, today)
              rec0 == [feed |-> cur[t], n |-> n, date |-> today, generated |-> FALSE,
                       filepath |-> None, mobi_path |-> None, res |-> "running",
                       err |-> "none"]
          IN  IF articles_empty(n)
              THEN FeedReturn(t, rec0, None) /\ UNCHANGED disk
              ELSE \E write_ok \in BOOLEAN :
                   LET filepath == generate(n, title, today, write_ok)
                       rec1 == [rec0 EXCEPT !.generated = TRUE, !.filepath = filepath]
                   IN  IF filepath = None
                       THEN /\ IF GenerateExcept = "caught"
                               THEN FeedReturn(t, rec1, filepath)
                               ELSE FeedRaise(t, rec1, "generate")
                            /\ UNCHANGED disk
                       ELSE \E conv \in ConvertOutcomes :
                            LET mobi_path == _convert_to_mobi(filepath, conv) IN
                            /\ disk' = disk \cup {filepath} \cup ({mobi_path} \ {None})
                            /\ call' = [call EXCEPT ![t] = [rec1 EXCEPT !.mobi_path = mobi_path]]
                            /\ pc' = [pc EXCEPT ![t] = "delete"]
                            /\ loop' = "none"
                            /\ UNCHANGED <<last, log, files, exc>>
    /\ UNCHANGED <<feeds, registry, today, sched, views, kind, sel, queue, cur, session>>

\* The row generate_feed builds.
NewBook(c, feed_id) ==
    [feed_id |-> feed_id, filename |-> c.filepath, file_path |-> c.filepath,
     mobi_file_path |-> c.mobi_path, article_count |-> c.n,
     generation_date |-> c.date, calibre_book_id |-> Null]

\* The committed rows after `await db.execute(delete ...)`: the statement
\* runs in the session's transaction and commits nothing.
execute_delete_autocommit(rows, filename) == {r \in rows : r.filename # filename}
execute_delete(rows, filename) == rows

\* generate_feed after `await db.execute(delete ... filename == filename)`:
\* the statement raised, or it ran in the session's transaction and the
\* RssGeneratedBook constructor is called.  The constructor raises TypeError
\* (mobi_filename is no attribute of the class), so db.add, _add_to_calibre
\* and `await db.commit()` are not reached.
db_delete(t) ==
    /\ loop = "none"
    /\ exc[t] # "cancelling"
    /\ pc[t] = "delete"
    /\ \E db_ok \in BOOLEAN :
          IF ~db_ok
          THEN FeedRaise(t, call[t], "db") /\ UNCHANGED <<session, registry>>
          ELSE IF ~RssGeneratedBook_init(GeneratedBookKwargs)
          THEN /\ session' = [session EXCEPT ![t].deleted = @ \cup {call[t].filepath}]
               /\ registry' = execute_delete(registry, call[t].filepath)
               /\ FeedRaise(t, call[t], "TypeError")
          ELSE /\ session' = [session EXCEPT
                                ![t].deleted = @ \cup {call[t].filepath},
                                ![t].added = @ \cup {NewBook(call[t], cur[t])}]
               /\ registry' = execute_delete(registry, call[t].filepath)
               /\ pc' = [pc EXCEPT ![t] = "commit"]
               /\ loop' = "none"
               /\ UNCHANGED <<call, last, log, files, exc>>
    /\ UNCHANGED <<feeds, disk, today, sched, views, kind, sel, queue, cur>>

\* _scheduled_generation_wrapper: `finally: await db.close()`: the session's
\* uncommitted work is rolled back and the job returns.
db_close(t) ==
    /\ loop = "none"
    /\ pc[t] = "close"
    /\ Begin(t, kind[t], "idle")
    /\ cur' = [cur EXCEPT ![t] = 0]
    /\ UNCHANGED <<store, sched, views, loop, call>>

\* The route sends its response (or the error) and the request ends.
Finish(t) ==
    /\ loop = "none"
    /\ pc[t] = "done"
    /\ Begin(t, kind[t], "idle")
    /\ cur' = [cur EXCEPT ![t] = 0]
    /\ UNCHANGED <<store, sched, views, loop, call>>

\* GET /api/rss/preview/{feed_id}?max_articles=...: fetch_feed on the feed's
\* document, nothing generated.
PreviewMax == -1..(MaxEntries + 1)

preview_feed(feed_id, max_articles) ==
    /\ loop = "none"
    /\ preview = NoPreview
    /\ \E doc \in Docs :
          preview' = [feed |-> feed_id, doc |-> doc, max_articles |-> max_articles,
                      raised |-> fetch_feed(doc, max_articles).raised,
                      articles |-> fetch_feed(doc, max_articles).articles]
    /\ UNCHANGED <<store, sched, entry, book, admin, name, loop, pc, kind, sel, queue, cur, call, last, log,
                   files, exc, session>>

\* The preview's response is sent.
preview_sent ==
    /\ preview # NoPreview
    /\ preview' = NoPreview
    /\ UNCHANGED <<store, sched, entry, book, admin, name, loop, pc, kind, sel, queue, cur, call, last, log,
                   files, exc, session>>

\* _process_entry on one entry of a feed, with the web answering `web`.
process_entry ==
    /\ entry = NoEntry
    /\ \E e \in Entries :
          \E web \in [EntryUrls(e) -> Responses] :
             entry' = [e |-> e, web |-> web, article |-> ProcessEntry(e, web)]
    /\ UNCHANGED <<store, sched, tasks, preview, book, admin, name>>

\* _extract_thumbnail on one entry of a parsed feed.
extract_thumbnail ==
    /\ entry = NoEntry
    /\ \E parsed \in ParsedEntries :
          entry' = [parsed |-> parsed, thumbnail_url |-> _extract_thumbnail(parsed)]
    /\ UNCHANGED <<store, sched, tasks, preview, book, admin, name>>

\* The Article is handed on.
entry_done ==
    /\ entry # NoEntry
    /\ entry' = NoEntry
    /\ UNCHANGED <<store, sched, tasks, preview, book, admin, name>>

\* fetch_feed's articles handed to EpubGenerator.generate: the entries are
\* processed with the web answering `web`, and the book is assembled and
\* written (or writing fails and generate returns None).
generate_book ==
    /\ book = NoBook
    /\ \E n \in 0..MaxEntries, web \in BookWebs, write_ok \in BOOLEAN :
          \E es \in [1..n -> UNION {BookEntries(i) : i \in 1..n}] :
             /\ \A i \in 1..n : es[i] \in BookEntries(i)
             /\ LET articles == [i \in 1..n |->
                                   [title |-> es[i].title, link |-> es[i].link] @@
                                   ProcessEntry(es[i], web)]
                    title == Title(FeedName(1), today)
                    filepath == generate(n, title, today, write_ok)
                IN  book' = [title |-> title,
                             articles |-> articles,
                             epub |-> IF filepath = None THEN NoBook
                                      ELSE EpubBook(articles, title, today),
                             filepath |-> filepath]
    /\ UNCHANGED <<store, sched, tasks, preview, entry, admin, name>>

\* generate has returned.
book_done ==
    /\ book # NoBook
    /\ book' = NoBook
    /\ UNCHANGED <<store, sched, tasks, preview, entry, admin, name>>

\* _sanitize_filename(name), as generate calls it on a title.
sanitize_name ==
    /\ name = NoName
    /\ \E x \in Names :
          name' = [calls |-> 1, original |-> x, input |-> x,
                   output |-> _sanitize_filename(x)]
    /\ UNCHANGED <<store, sched, tasks, preview, entry, book, admin>>

\* _sanitize_filename on the name the last call returned.
sanitize_again ==
    /\ name # NoName
    /\ name.calls = 1
    /\ name' = [calls |-> 2, original |-> name.original, input |-> name.output,
                output |-> _sanitize_filename(name.output)]
    /\ UNCHANGED <<store, sched, tasks, preview, entry, book, admin>>

\* The name has been used.
name_done ==
    /\ name # NoName
    /\ name' = NoName
    /\ UNCHANGED <<store, sched, tasks, preview, entry, book, admin>>

\* The unique index on rss_feeds.url (models/rss_feed.py:13): an INSERT or
\* UPDATE giving a row a url that another row has raises IntegrityError.
UrlTaken_never(table, url, self) == FALSE
UrlTaken(table, url, self) ==
    \E f \in DOMAIN table \ {self} : table[f].url = url

\* The id the database gives a new row of rss_feeds.
NewId(table) == CHOOSE f \in FeedIds \ DOMAIN table :
                    \A g \in FeedIds \ DOMAIN table : f <= g
Creating == {c \in Clients : admin[c].op = "create_feed" /\ admin[c].status = 0}

\* POST /api/rss/feeds: the handler awaits the select of a feed with the url.
create_feed(c, url) ==
    /\ admin[c] = NoAdmin
    /\ Cardinality(DOMAIN feeds) + Cardinality(Creating) < NumFeeds
    /\ admin' = [admin EXCEPT ![c] =
                    [op |-> "create_feed", url |-> url, status |-> 0,
                     existing |-> \E f \in DOMAIN feeds : feeds[f].url = url]]
    /\ UNCHANGED <<store, sched, tasks, preview, entry, book, name>>

\* create_feed after its select: 400 when the select found a feed; else the
\* row is added and committed, which fails (500) when a feed with the url
\* was committed in between.
create_feed_selected(c) ==
    /\ admin[c].op = "create_feed"
    /\ admin[c].status = 0
    /\ IF admin[c].existing
       THEN /\ admin' = [admin EXCEPT ![c] = Answer("create_feed", 400, FALSE)]
            /\ UNCHANGED feeds
       ELSE IF UrlTaken(feeds, admin[c].url, 0)
       THEN /\ admin' = [admin EXCEPT ![c] = Answer("create_feed", 500, FALSE)]
            /\ UNCHANGED feeds
       ELSE LET id == NewId(feeds) IN
            /\ feeds' = [f \in DOMAIN feeds \cup {id} |->
                           IF f = id
                           THEN [name |-> FeedName(id), url |-> admin[c].url,
                                 max_articles |-> FeedMaxArticles(id), enabled |-> TRUE]
                           ELSE feeds[f]]
            /\ admin' = [admin EXCEPT ![c] = Answer("create_feed", 200, FALSE)]
    /\ UNCHANGED <<registry, disk, today, sched, tasks, preview, entry, book, name>>

\* PUT /api/rss/feeds/{feed_id} with a url: the handler awaits the select of
\* the feed.
update_feed(c, feed_id, url) ==
    /\ admin[c] = NoAdmin
    /\ admin' = [admin EXCEPT ![c] =
                    [op |-> "update_feed", feed_id |-> feed_id, url |-> url, status |-> 0,
                     loaded |-> IF feed_id \in DOMAIN feeds THEN feeds[feed_id].url ELSE Null]]
    /\ UNCHANGED <<store, sched, tasks, preview, entry, book, name>>

\* update_feed after its select: 404 when there is no such feed; else the
\* url is set on the loaded object and the session committed.  No
\* statement is sent when the url is the one loaded; the UPDATE fails (500)
\* when the row is gone or another feed has the url.
update_feed_selected(c) ==
    /\ admin[c].op = "update_feed"
    /\ admin[c].status = 0
    /\ LET feed_id == admin[c].feed_id
           url == admin[c].url
       IN  IF admin[c].loaded = Null
           THEN /\ admin' = [admin EXCEPT ![c] = Answer("update_feed", 404, FALSE)]
                /\ UNCHANGED feeds
           ELSE IF url = admin[c].loaded /\ feed_id \in DOMAIN feeds
           THEN /\ admin' = [admin EXCEPT ![c] = Answer("update_feed", 200, FALSE)]
                /\ UNCHANGED feeds
           ELSE IF feed_id \notin DOMAIN feeds \/ UrlTaken(feeds, url, feed_id)
           THEN /\ admin' = [admin EXCEPT ![c] = Answer("update_feed", 500, FALSE)]
                /\ UNCHANGED feeds
           ELSE /\ feeds' = [feeds EXCEPT ![feed_id].url = url]
                /\ admin' = [admin EXCEPT ![c] = Answer("update_feed", 200, FALSE)]
    /\ UNCHANGED <<registry, disk, today, sched, tasks, preview, entry, book, name>>

\* DELETE /api/rss/feeds/{feed_id}: the handler awaits the select of the feed.
delete_feed(c, feed_id) ==
    /\ admin[c] = NoAdmin
    /\ admin' = [admin EXCEPT ![c] =
                    [op |-> "delete_feed", feed_id |-> feed_id, status |-> 0,
                     found |-> feed_id \in DOMAIN feeds]]
    /\ UNCHANGED <<store, sched, tasks, preview, entry, book, name>>

\* delete_feed after its select: 404 when there is no such feed; else the
\* DELETE statement (no error when the row is gone) and the commit.
delete_feed_selected(c) ==
    /\ admin[c].op = "delete_feed"
    /\ admin[c].status = 0
    /\ IF admin[c].found
       THEN /\ feeds' = [f \in DOMAIN feeds \ {admin[c].feed_id} |-> feeds[f]]
            /\ admin' = [admin EXCEPT ![c] = Answer("delete_feed", 200, FALSE)]
       ELSE /\ admin' = [admin EXCEPT ![c] = Answer("delete_feed", 404, FALSE)]
            /\ UNCHANGED feeds
    /\ UNCHANGED <<registry, disk, today, sched, tasks, preview, entry, book, name>>

\* DELETE /api/rss/books/{book_id}?delete_file=...: the handler awaits the
\* select of the row.
delete_book(c, book_id, delete_file) ==
    /\ loop = "none"
    /\ admin[c] = NoAdmin
    /\ admin' = [admin EXCEPT ![c] =
                    [op |-> "delete_book", book_id |-> book_id,
                     delete_file |-> delete_file, status |-> 0, oserror |-> FALSE]]
    /\ UNCHANGED <<store, sched, tasks, preview, entry, book, name>>

\* delete_book after its select: 404 when there is no row; else the files
\* are removed when asked for (os.remove may raise OSError, which is
\* passed), the row is deleted and the delete committed.  Reading
\* book.mobi_file_path raises AttributeError (500) as the class has no such
\* attribute.
delete_book_selected(c) ==
    /\ loop = "none"
    /\ admin[c].op = "delete_book"
    /\ admin[c].status = 0
    /\ LET rows == {r \in registry : r.id = admin[c].book_id} IN
       IF rows = {}
       THEN /\ admin' = [admin EXCEPT ![c] = Answer("delete_book", 404, FALSE)]
            /\ UNCHANGED <<registry, disk>>
       ELSE \E r \in rows, rm_ok \in BOOLEAN :
            IF admin[c].delete_file
            THEN /\ disk' = IF rm_ok THEN disk \ {r.file_path} ELSE disk
                 /\ IF HasAttr("mobi_file_path")
                    THEN /\ registry' = registry \ {r}
                         /\ admin' = [admin EXCEPT ![c] = Answer("delete_book", 200, ~rm_ok)]
                    ELSE /\ admin' = [admin EXCEPT ![c] = Answer("delete_book", 500, ~rm_ok)]
                         /\ UNCHANGED registry
            ELSE /\ rm_ok
                 /\ registry' = registry \ {r}
                 /\ admin' = [admin EXCEPT ![c] = Answer("delete_book", 200, FALSE)]
                 /\ UNCHANGED disk
    /\ UNCHANGED <<feeds, today, sched, tasks, preview, entry, book, name>>

\* The response of a management request is sent.
admin_done(c) ==
    /\ admin[c] # NoAdmin
    /\ admin[c].status # 0
    /\ admin' = [admin EXCEPT ![c] = NoAdmin]
    /\ UNCHANGED <<store, sched, tasks, preview, entry, book, name>>

\* -------------------------------------------------------- specifications
\* The running application: the lifespan has started the scheduler with its
\* configured time; the timer job runs while single feeds are generated on
\* demand.
Init ==
    /\ InitStore
    /\ InitTasks
    /\ running = TRUE
    /\ jobs = {Job(6, 0)}

Next ==
    \/ TimerFire
    \/ \E r \in Requests, feed_id \in 0..NumFeeds : generate_single(r, feed_id)
    \/ \E t \in Tasks : SelectFeeds(t)
    \/ \E t \in Tasks : NextFeed(t)
    \/ \E t \in Tasks : SelectFeed(t)
    \/ \E t \in Tasks : generate_feed(t)
    \/ \E t \in Tasks : db_delete(t)
    \/ db_close("timer")
    \/ \E r \in Requests : Finish(r)

Spec == Init /\ [][Next]_vars

\* The on-demand routes alone: generate all feeds or a single feed.
NextRequest ==
    \/ \E r \in Requests : generate_all(r)
    \/ \E r \in Requests, feed_id \in 0..NumFeeds : generate_single(r, feed_id)
    \/ \E r \in Requests : SelectFeeds(r)
    \/ \E r \in Requests : NextFeed(r)
    \/ \E r \in Requests : SelectFeed(r)
    \/ \E r \in Requests : generate_feed(r)
    \/ \E r \in Requests : db_delete(r)
    \/ \E r \in Requests : Finish(r)

RequestSpec == Init /\ [][NextRequest]_vars

\* The scheduler's life cycle: start and stop in any order, and the timer job.
InitSched ==
    /\ InitStore
    /\ InitTasks
    /\ running = FALSE
    /\ jobs = {}

NextSched ==
    \/ \E tm \in Times : start(tm[1], tm[2])
    \/ stop
    \/ Cancelled("timer")
    \/ TimerFire
    \/ SelectFeeds("timer")
    \/ NextFeed("timer")
    \/ generate_feed("timer")
    \/ db_delete("timer")
    \/ db_close("timer")

SchedSpec == InitSched /\ [][NextSched]_vars

\* Nothing scheduled and every feed enabled: the state the fetcher's and the
\* generator's functions are applied in.
InitPure ==
    /\ InitSched
    /\ \A f \in FeedIds : feeds[f].enabled

\* The fetcher alone: every feed document and every max_articles.
NextFetch ==
    \/ \E feed_id \in FeedIds, max_articles \in PreviewMax :
          preview_feed(feed_id, max_articles)
    \/ preview_sent

FetchSpec == InitSched /\ [][NextFetch]_vars

\* Thumbnail discovery alone: every combination of the five sources.
NextThumbnail ==
    \/ extract_thumbnail
    \/ entry_done

ThumbnailSpec == InitPure /\ [][NextThumbnail]_vars

\* The processing of one feed entry: every entry and every answer of the web.
NextEntry ==
    \/ process_entry
    \/ entry_done

EntrySpec == InitPure /\ [][NextEntry]_vars

\* The assembly of one book from processed articles.
NextBook ==
    \/ generate_book
    \/ book_done

BookSpec == InitPure /\ [][NextBook]_vars

\* _sanitize_filename alone, applied once and applied to its own result.
NextSanitize ==
    \/ sanitize_name
    \/ sanitize_again
    \/ name_done

SanitizeSpec == InitPure /\ [][NextSanitize]_vars

\* The registry with rows in it: books are deleted while the timer job and
\* an on-demand request generate the enabled feed, feed 1; each row's EPUB is
\* on disk.  The books asked to be deleted are book 1 and a book that does
\* not exist.
InitRegistry ==
    /\ InitTasks
    /\ running = TRUE
    /\ jobs = {Job(6, 0)}
    /\ feeds = [f \in FeedIds |->
                  [name |-> FeedName(f), url |-> FeedUrl(f),
                   max_articles |-> FeedMaxArticles(f), enabled |-> f = 1]]
    /\ registry \in InitRegistries
    /\ disk = {r.file_path : r \in registry}
    /\ today = 1
    /\ preview = NoPreview
    /\ entry = NoEntry
    /\ book = NoBook
    /\ admin = [c \in Clients |-> NoAdmin]
    /\ name = NoName

NextRegistry ==
    \/ TimerFire
    \/ \E r \in Requests : generate_single(r, 1)
    \/ SelectFeeds("timer")
    \/ NextFeed("timer")
    \/ \E r \in Requests : SelectFeed(r)
    \/ \E t \in Tasks : generate_feed(t)
    \/ \E t \in Tasks : db_delete(t)
    \/ db_close("timer")
    \/ \E r \in Requests : Finish(r)
    \/ \E book_id \in {1, MaxBooks + 1}, delete_file \in BOOLEAN :
          delete_book("c1", book_id, delete_file)
    \/ delete_book_selected("c1")
    \/ admin_done("c1")

RegistrySpec == InitRegistry /\ [][NextRegistry]_vars

\* The feed table under the management endpoints, from an empty table, with
\* the requests of two clients interleaving at their awaits.
InitFeeds ==
    /\ InitTasks
    /\ running = FALSE
    /\ jobs = {}
    /\ feeds = <<>>
    /\ registry = {}
    /\ disk = {}
    /\ today = 1
    /\ preview = NoPreview
    /\ entry = NoEntry
    /\ book = NoBook
    /\ admin = [c \in Clients |-> NoAdmin]
    /\ name = NoName

NextFeeds ==
    \/ \E c \in Clients, url \in FeedUrls : create_feed(c, url)
    \/ \E c \in Clients : create_feed_selected(c)
    \/ \E c \in Clients, feed_id \in FeedIds, url \in FeedUrls : update_feed(c, feed_id, url)
    \/ \E c \in Clients : update_feed_selected(c)
    \/ \E c \in Clients, feed_id \in FeedIds : delete_feed(c, feed_id)
    \/ \E c \in Clients : delete_feed_selected(c)
    \/ \E c \in Clients : admin_done(c)

FeedSpec == InitFeeds /\ [][NextFeeds]_vars

\* The rows a registry can hold for a feed table: a row records the book
\* generated for one of the table's feeds, under the name the feed has, on
\* one of the given days; ids and filenames are unique.
StoredRow(i, f, feed_name, d) ==
    [id |-> i, feed_id |-> f,
     filename |-> EpubFile(Title(feed_name, d), d),
     file_path |-> EpubFile(Title(feed_name, d), d),
     article_count |-> 1, generation_date |-> d, calibre_book_id |-> Null]
Registries(table, days) ==
    {rs \in SUBSET {StoredRow(i, f, table[f].name, d) :
                        i \in 1..MaxBooks, f \in DOMAIN table, d \in days} :
        \A r1, r2 \in rs : r1 # r2 => (r1.id # r2.id /\ r1.filename # r2.filename)}

\* The names feeds are configured with (rss_feeds.name is not unique).
ConfiguredNames == {<<"V", "n">>, <<"T", "-", "T">>, <<"T", " ", "T">>}

\* On-demand generation of single feeds on day 2, for every choice of feed
\* names, over a registry holding books of day 1 and day 2.
InitReplace ==
    /\ InitTasks
    /\ running = FALSE
    /\ jobs = {}
    /\ \E names \in [FeedIds -> ConfiguredNames] :
          feeds = [f \in FeedIds |->
                     [name |-> names[f], url |-> FeedUrl(f),
                      max_articles |-> FeedMaxArticles(f), enabled |-> TRUE]]
    /\ today = 2
    /\ registry \in Registries(feeds, {1, 2})
    /\ disk = {r.file_path : r \in registry}
    /\ preview = NoPreview
    /\ entry = NoEntry
    /\ book = NoBook
    /\ admin = [c \in Clients |-> NoAdmin]
    /\ name = NoName

NextReplace ==
    \/ \E r \in Requests, feed_id \in FeedIds : generate_single(r, feed_id)
    \/ \E r \in Requests : SelectFeed(r)
    \/ \E r \in Requests : generate_feed(r)
    \/ \E r \in Requests : db_delete(r)
    \/ \E r \in Requests : Finish(r)

ReplaceSpec == InitReplace /\ [][NextReplace]_vars

\* Runs of _generate_all_feeds by the timer job over a registry with rows in
\* it; every feed is enabled and each row's EPUB is on disk.
InitRun ==
    /\ InitTasks
    /\ running = TRUE
    /\ jobs = {Job(6, 0)}
    /\ feeds = [f \in FeedIds |->
                  [name |-> FeedName(f), url |-> FeedUrl(f),
                   max_articles |-> FeedMaxArticles(f), enabled |-> TRUE]]
    /\ registry \in InitRegistries
    /\ disk = {r.file_path : r \in registry}
    /\ today = 1
    /\ preview = NoPreview
    /\ entry = NoEntry
    /\ book = NoBook
    /\ admin = [c \in Clients |-> NoAdmin]
    /\ name = NoName

NextRun ==
    \/ TimerFire
    \/ SelectFeeds("timer")
    \/ NextFeed("timer")
    \/ generate_feed("timer")
    \/ db_delete("timer")
    \/ db_close("timer")

RunSpec == InitRun /\ [][NextRun]_vars

\* On-demand generation of single feeds, for every max_articles the feeds
\* can be configured with: unset, 0 or a positive number.
ConfiguredCaps == {Null, <<0>>, <<1>>}

InitCaps ==
    /\ InitTasks
    /\ running = FALSE
    /\ jobs = {}
    /\ \E caps \in [FeedIds -> ConfiguredCaps] :
          feeds = [f \in FeedIds |->
                     [name |-> FeedName(f), url |-> FeedUrl(f),
                      max_articles |-> caps[f], enabled |-> TRUE]]
    /\ registry = {}
    /\ disk = {}
    /\ today = 1
    /\ preview = NoPreview
    /\ entry = NoEntry
    /\ book = NoBook
    /\ admin = [c \in Clients |-> NoAdmin]
    /\ name = NoName

CapSpec == InitCaps /\ [][NextReplace]_vars

\* The timeout each external I/O step of generate_feed is given, in
\* seconds, Null when it is given none: feedparser.parse(feed_url) is called
\* with the URL alone, the page and image requests go through the httpx
\* client, the two subprocess.run calls carry timeout=.
IoTimeouts ==
    [feed |-> Null,
     page |-> <<ClientTimeout>>,
     image |-> <<ImageTimeout>>,
     convert |-> <<ConvertTimeout>>,
     calibre |-> <<CalibreTimeout>>]
IoBounded == \A step \in DOMAIN IoTimeouts : IoTimeouts[step] # Null

\* On-demand generation of single feeds under the scheduling the event loop
\* and the database driver give: a coroutine that can resume does resume,
\* and the synchronous part of generate_feed ends when every I/O step it
\* waits for is bounded by a timeout.
LiveSpec ==
    /\ InitSched
    /\ [][NextReplace]_vars
    /\ \A r \in Requests :
          /\ WF_vars(SelectFeed(r))
          /\ WF_vars(IoBounded /\ generate_feed(r))
          /\ WF_vars(db_delete(r))
          /\ WF_vars(Finish(r))

\* ----------------------------------------------------------------- claims
\* A generate_feed call that has finished, as its caller sees it.
Finished(t) == last[t] # NoCall
FileWritten(c) == c.filepath # None
RowsFor(feed_id, d) == {r \in registry : r.feed_id = feed_id /\ r.generation_date = d}
Range(q) == {q[i] : i \in DOMAIN q}
Increasing(q) == \A i, j \in DOMAIN q : i < j => q[i] < q[j]

\* C1: when generate_feed has run twice for the same feed on the same date,
\* each time with articles fetched, the EPUB written and no failure of the
\* database, the registry holds exactly one row for that feed and date.
C1_OneRowPerFeedAndDate ==
    \A t1, t2 \in Tasks :
        ( /\ t1 # t2
          /\ Finished(t1) /\ Finished(t2)
          /\ FileWritten(last[t1]) /\ FileWritten(last[t2])
          /\ last[t1].err # "db" /\ last[t2].err # "db"
          /\ last[t1].feed = last[t2].feed
          /\ last[t1].date = last[t2].date )
        => Cardinality(RowsFor(last[t1].feed, last[t1].date)) = 1

\* C2: a generate_feed call whose fetch returned no article returns None
\* without calling the generator, and the step leaves the output directory,
\* the registry and the session's pending work as they were.
C2_NoArticlesNoBook ==
    [][ \A t \in Tasks :
          (pc[t] = "feed" /\ last'[t] # NoCall /\ last'[t].n = 0)
          => /\ last'[t].res = "none"
             /\ ~last'[t].generated
             /\ last'[t].filepath = None
             /\ disk' = disk
             /\ registry' = registry
             /\ session' = session ]_vars

C2_Witness ==
    \E t \in Tasks : Finished(t) /\ last[t].n = 0 /\ last[t].res = "none"

\* C3: a generate_feed call that fetched n >= 1 articles, whose EPUB was
\* written and whose database statements did not fail, returns the file's
\* path, and the registry holds a row with the file's name, a non-null
\* file_path and article_count = n.
C3_PathAndRow ==
    \A t \in Tasks :
        (Finished(t) /\ last[t].n >= 1 /\ FileWritten(last[t]) /\ last[t].err # "db")
        => /\ last[t].res = "path"
           /\ \E r \in registry :
                 /\ r.feed_id = last[t].feed
                 /\ r.filename = last[t].filepath
                 /\ r.file_path # None
                 /\ r.article_count = last[t].n

\* C4: no two generate_feed executions for the same feed are in progress at
\* the same time.
InGenerateFeed(t) == pc[t] \in {"feed", "delete", "commit"}

C4_OneExecutionPerFeed ==
    \A t1, t2 \in Tasks :
        (t1 # t2 /\ InGenerateFeed(t1) /\ InGenerateFeed(t2)) => cur[t1] # cur[t2]

\* C5: _generate_all_feeds visits every enabled feed it selected, in the
\* order selected, whatever the earlier feeds' calls raised: an exception
\* leaves it only from the select itself, every selected feed is logged,
\* in progress or still queued, and generated_files is the paths of the
\* calls that returned a path, in that order.
LogFeeds(l) == [i \in DOMAIN l |-> l[i].feed]
IsPath(e) == e.res = "path"
LogPaths(l) == [i \in DOMAIN SelectSeq(l, IsPath) |-> SelectSeq(l, IsPath)[i].path]
Visiting(t) == IF pc[t] \in {"feed", "delete", "commit"} THEN <<cur[t]>> ELSE <<>>

C5_EveryEnabledFeedVisited ==
    \A t \in Tasks : kind[t] \in {"all", "timer"} =>
        /\ exc[t] \in {"out", "job"} => (sel[t] = <<>> /\ log[t] = <<>>)
        /\ pc[t] \in {"loop", "feed", "delete", "commit"} =>
              /\ LogFeeds(log[t]) \o Visiting(t) \o queue[t] = sel[t]
              /\ Range(sel[t]) = {f \in FeedIds : feeds[f].enabled}
              /\ files[t] = LogPaths(log[t])

C5_Witness ==
    \E t \in Tasks :
        /\ kind[t] = "all" /\ pc[t] = "loop" /\ queue[t] = <<>>
        /\ \E i, j \in DOMAIN log[t] : i < j /\ log[t][i].res = "error"
        /\ LogFeeds(log[t]) = sel[t]

\* C6: a generate_feed call whose EPUB was written and whose MOBI conversion
\* failed (no database failure) still returns the EPUB's path, the EPUB stays
\* in the output directory, and the registry holds the row with a null MOBI
\* path.
C6_OptionalStepFailure ==
    \A t \in Tasks :
        ( /\ Finished(t) /\ FileWritten(last[t])
          /\ last[t].mobi_path = None /\ last[t].err # "db" )
        => /\ last[t].res = "path"
           /\ last[t].filepath \in disk
           /\ \E r \in registry :
                 /\ r.feed_id = last[t].feed
                 /\ r.file_path = last[t].filepath
                 /\ r.mobi_file_path = None

\* C7: no exception leaves the timer job: an error of _generate_all_feeds
\* ends in the wrapper's handler, the job's steps leave the scheduler's
\* state and its job alone, and once the job has returned with the scheduler
\* running the timer can fire again.
C7_TimerJobSurvivesErrors ==
    [][ /\ exc'["timer"] # "out"
        /\ (exc["timer"] # "job" /\ exc'["timer"] = "job") => pc'["timer"] = "close"
        /\ (pc["timer"] # "idle" /\ pc'["timer"] # pc["timer"])
              => (running' = running /\ jobs' = jobs)
        /\ (pc["timer"] = "close" /\ pc'["timer"] = "idle" /\ running)
              => TimerCanFire' ]_vars

C7_Witness ==
    /\ pc["timer"] = "close" /\ exc["timer"] = "job"
    /\ running /\ Cardinality(jobs) = 1

\* C8: the scheduler is Stopped or Running; start leaves it Running with
\* exactly one job, at the hour and minute given; stop while Running leaves
\* it Stopped, and the timer fires only while Running; stop while Stopped
\* changes nothing; there is never more than one job.
C8_SchedulerLifecycle ==
    [][ /\ running' \in BOOLEAN
        /\ Cardinality(jobs') <= 1
        /\ \A tm \in Times :
              start(tm[1], tm[2]) => (running' /\ jobs' = {Job(tm[1], tm[2])})
        /\ (stop /\ running) => ~running'
        /\ (stop /\ ~running) => UNCHANGED vars
        /\ (pc["timer"] = "idle" /\ pc'["timer"] # "idle") => running ]_vars

C8_Witness ==
    /\ running /\ jobs = {Job(18, 30)}
    /\ pc["timer"] = "select_feeds"

\* C9: fetch_feed with max_articles >= 0 returns at most max_articles
\* articles: those of the document's first max_articles entries that were
\* processed, in the document's order.
OkEntries(doc, n) ==
    {i \in 1..Min(n, Len(doc.entries)) : doc.entries[i] = "ok"}

C9_AtMostMaxInOrder ==
    (preview # NoPreview /\ preview.max_articles >= 0) =>
        /\ Len(preview.articles) <= preview.max_articles
        /\ Increasing(preview.articles)
        /\ Range(preview.articles) = OkEntries(preview.doc, preview.max_articles)

C9_Witness ==
    /\ preview # NoPreview
    /\ preview.max_articles = 1
    /\ Len(preview.doc.entries) = 2
    /\ preview.doc.entries[2] = "ok"
    /\ preview.articles = <<1>>

\* C10: fetch_feed never raises; an entry whose processing raises or that has
\* no link is left out and every other entry of the slice is returned; a
\* document that cannot be parsed gives the empty list.
C10_NeverRaisesSkipsBadEntries ==
    preview # NoPreview =>
        /\ ~preview.raised
        /\ \A i \in Range(preview.articles) : preview.doc.entries[i] = "ok"
        /\ preview.max_articles >= 0 =>
              OkEntries(preview.doc, preview.max_articles) \subseteq Range(preview.articles)
        /\ (preview.doc.parse = "raise"
              \/ (preview.doc.parse = "bozo" /\ preview.doc.entries = <<>>))
              => preview.articles = <<>>

C10_Witness ==
    /\ preview # NoPreview
    /\ \E i, j \in DOMAIN preview.doc.entries :
          /\ i < j /\ j <= preview.max_articles
          /\ preview.doc.entries[i] = "raise"
          /\ preview.doc.entries[j] = "ok"
          /\ j \in Range(preview.articles)

\* C11: an entry whose feed content is shorter than 500 characters gets one
\* page request, and when the page fails or gives nothing the article keeps
\* the feed's content (same origin, same length, so non-empty when the feed's
\* was); an entry whose feed content has 500 characters or more gets no page
\* request and keeps the feed's content.
C11_ShortContentFallback ==
    entry # NoEntry =>
        LET e == entry.e
            a == entry.article
        IN  /\ e.length < ContentThreshold =>
                  /\ a.fetches = 1
                  /\ e.page # "ok" => (a.origin = "feed" /\ a.length = e.length)
            /\ e.length >= ContentThreshold =>
                  /\ a.fetches = 0
                  /\ a.origin = "feed" /\ a.length = e.length

C11_Witness ==
    /\ entry # NoEntry
    /\ entry.e.length = 50 /\ entry.e.page = "error"
    /\ entry.article.fetches = 1
    /\ entry.article.origin = "feed" /\ entry.article.length = 50

\* The position in the article's content of the i-th <img> tag matched.
TagAt(a, i) == a.srcs[IF a.thumb THEN i + 1 ELSE i]

\* C12: for every <img> tag whose download exceeds 5 MB, the image is not in
\* the article's image map and the tag's src is still the original URL, while
\* every image that was downloaded is in the map.
C12_OversizedImageSkipped ==
    entry # NoEntry =>
        LET a == entry.article IN
        \A i \in DOMAIN a.matches :
            LET img_url == a.matches[i]
                absolute_url == urljoin(entry.e.link, img_url)
                filename == ImageFilename("img_", img_url, absolute_url)
            IN  /\ entry.web[absolute_url] = "big" =>
                      (filename \notin a.images /\ TagAt(a, i) = img_url)
                /\ entry.web[absolute_url] = "ok" => filename \in a.images

\* A src that names a file of the book's images/ directory, and the file.
IsLocalRef(src) == src # <<>> /\ src[1] = "images/"
RefFilename(src) == UrlPath(Tail(src))

\* C13: after an entry is processed, every src of the article's content of
\* the form images/<filename> has <filename> as a key of the image map.
C13_LocalRefsInImageMap ==
    entry # NoEntry =>
        \A i \in DOMAIN entry.article.srcs :
            IsLocalRef(entry.article.srcs[i])
                => RefFilename(entry.article.srcs[i]) \in entry.article.images

\* C14: two <img> tags, of one article or of two articles of a book, whose
\* URLs resolve to the same absolute URL and whose images were stored, were
\* stored under the same filename, and the book written has exactly one
\* image item for that filename.
C14_SameUrlSameFilename ==
    book # NoBook =>
        \A j, k \in DOMAIN book.articles :
            LET a1 == book.articles[j]
                a2 == book.articles[k]
            IN  \A i1 \in DOMAIN a1.matches, i2 \in DOMAIN a2.matches :
                    ( /\ urljoin(a1.link, a1.matches[i1]) = urljoin(a2.link, a2.matches[i2])
                      /\ a1.names[i1] # <<>> /\ a2.names[i2] # <<>> )
                    => /\ a1.names[i1] = a2.names[i2]
                       /\ book.filepath # None =>
                             Cardinality({it \in book.epub.items :
                                             it.file_name = LocalRef(a1.names[i1])}) = 1

C14_Witness ==
    /\ book # NoBook /\ book.filepath # None
    /\ Len(book.articles) = 2
    /\ book.articles[1].matches = <<<<"p">>>>
    /\ book.articles[2].matches = <<<<"H", "p">>>>
    /\ book.articles[1].names[1] # <<>>
    /\ book.articles[1].names = book.articles[2].names

\* The number a chapter file name carries.
DigitValue(c) == CHOOSE k \in 0..9 : Digit(k) = c
ChapterNumber(file_name) ==
    100 * DigitValue(file_name[2]) + 10 * DigitValue(file_name[3]) + DigitValue(file_name[4])

\* C15: in a book written from a non-empty article list, the i-th article is
\* the chapter file chapter_<i as three digits>.xhtml, so that the names are
\* distinct and increase with i, and the table of contents and the reading
\* order list the chapters in input order, whatever the titles.
C15_ChaptersInInputOrder ==
    (book # NoBook /\ book.filepath # None) =>
        LET ch == book.epub.chapters IN
        /\ DOMAIN ch = DOMAIN book.articles
        /\ \A i \in DOMAIN ch :
              /\ Len(ch[i].file_name) = 5
              /\ ch[i].file_name[1] = "chapter_" /\ ch[i].file_name[5] = ".xhtml"
              /\ ChapterNumber(ch[i].file_name) = i
              /\ ch[i].title = book.articles[i].title
        /\ \A i, j \in DOMAIN ch : i # j => ch[i].file_name # ch[j].file_name
        /\ book.epub.toc = ch
        /\ book.epub.spine = <<"nav">> \o [i \in DOMAIN ch |-> ch[i].file_name]

C15_Witness ==
    /\ book # NoBook /\ book.filepath # None
    /\ Len(book.articles) = 2
    /\ book.articles[1].title = book.articles[2].title
    /\ book.epub.chapters[2].file_name = <<"chapter_", "0", "0", "2", ".xhtml">>

\* C16: _sanitize_filename applied to a name it returned returns that name
\* unchanged: sanitize(sanitize(x)) = sanitize(x).
C16_SanitizeIdempotent ==
    (name # NoName /\ name.calls = 2) => name.output = name.input

C16_Witness ==
    /\ name # NoName /\ name.calls = 2
    /\ Len(name.original) = FilenameLimit + 1
    /\ Len(name.output) = FilenameLimit - 1
    /\ name.output = name.input

DeleteBookAnswered(c) ==
    /\ admin[c].op = "delete_book"
    /\ admin[c].status = 0
    /\ admin'[c].status # 0
    /\ ~admin'[c].oserror

C19_DeleteBookFrame ==
    [][\A c \in Clients : DeleteBookAnswered(c) =>
          LET rows == {r \in registry : r.id = admin[c].book_id} IN
          IF rows = {}
          THEN /\ admin'[c].status = 404
               /\ registry' = registry
               /\ disk' = disk
          ELSE /\ admin'[c].status = 200
               /\ registry' = registry \ rows
               /\ IF admin[c].delete_file
                  THEN disk' = disk \ {r.file_path : r \in rows}
                  ELSE disk' = disk]_vars

\* C18: no two rows of rss_feeds have the same url after any step of a
\* create, update or delete request; and a create, or an update that
\* changes the url the handler read, whose url another feed has when it is
\* committed, is answered with an error and leaves the table as it was.
UniqueUrls(table) ==
    \A f, g \in DOMAIN table : f # g => table[f].url # table[g].url
WouldDuplicate(c) ==
    \/ /\ admin[c].op = "create_feed"
       /\ \E f \in DOMAIN feeds : feeds[f].url = admin[c].url
    \/ /\ admin[c].op = "update_feed"
       /\ admin[c].loaded \notin {Null, admin[c].url}
       /\ \E f \in DOMAIN feeds \ {admin[c].feed_id} : feeds[f].url = admin[c].url

C18_UniqueFeedUrls ==
    [][/\ UniqueUrls(feeds')
       /\ \A c \in Clients :
             (/\ admin[c].op \in {"create_feed", "update_feed"}
              /\ admin[c].status = 0
              /\ admin'[c].status # 0
              /\ WouldDuplicate(c))
             => (admin'[c].status \in {400, 500} /\ feeds' = feeds)]_vars

\* An update asking for the url of the other feed of a table of two was
\* answered with an error, and so was a create whose url was committed by
\* the other client after the create's own select had found none.
C18_Witness ==
    /\ Cardinality(DOMAIN feeds) = 2
    /\ admin["c1"] = Answer("update_feed", 500, FALSE)
    /\ admin["c2"] = Answer("create_feed", 500, FALSE)

\* C20: stop while the timer job is in progress leaves the scheduler stopped,
\* so that the timer does not fire again, and changes nothing of the run in
\* progress, which is never cancelled.
C20_StopLeavesRunInFlight ==
    [][ /\ (stop /\ running /\ pc["timer"] # "idle")
           => (~running' /\ ~TimerCanFire' /\ UNCHANGED tasks)
        /\ (pc["timer"] = "idle" /\ pc'["timer"] # "idle") => running
        /\ exc'["timer"] # "cancelled" ]_vars

\* C21: within one run of _generate_all_feeds, generate_feed is entered for
\* a feed only when no call is in progress and every feed taken from the
\* list before has been logged as finished; the feed entered is enabled and
\* was not processed before in this run; and when the loop ends, the feeds
\* processed are the enabled feeds, each once.
C21_EnabledFeedsOnceInSequence ==
    [][\A t \in Tasks :
          /\ (pc[t] = "loop" /\ pc'[t] = "feed")
                => /\ call[t] = NoCall
                   /\ Len(log[t]) + Len(queue[t]) = Len(sel[t])
                   /\ \A i \in DOMAIN log[t] : log[t][i].res \in {"none", "path", "error"}
                   /\ cur'[t] \notin Range(LogFeeds(log[t]))
                   /\ feeds[cur'[t]].enabled
          /\ (pc[t] = "loop" /\ pc'[t] \in {"done", "close"})
                => /\ Range(LogFeeds(log[t])) = {f \in FeedIds : feeds[f].enabled}
                   /\ Len(log[t]) = Cardinality({f \in FeedIds : feeds[f].enabled})]_vars

\* A feed is disabled, the run has processed an enabled feed whose call
\* raised, and is at the head of the loop with nothing left to visit.
C21_Witness ==
    /\ \E f \in FeedIds : ~feeds[f].enabled
    /\ pc["req"] = "loop" /\ queue["req"] = <<>>
    /\ Len(log["req"]) >= 1
    /\ log["req"][1].res = "error"

\* C22: the rows that the delete statement of generate_feed for feed f
\* removes in its transaction are rows of feed f with today's
\* generation_date, whatever names the feeds have.
C22_DeletesOnlyOwnRowOfToday ==
    [][\A t \in Tasks :
          (pc[t] = "delete" /\ pc'[t] # "delete")
          => \A r \in registry :
                r.filename \in (session'[t].deleted \ session[t].deleted)
                => (r.feed_id = cur[t] /\ r.generation_date = today)]_vars

C24_NoFigureForImageInContent ==
    entry # NoEntry =>
        ((\E i \in DOMAIN entry.article.matches :
              entry.article.matches[i] = entry.e.thumbnail)
         => ~entry.article.thumb)

\* C25: when generate fails while assembling or writing the book, the
\* generate_feed call returns None, the registry and the session's pending
\* statements are as before, no path is added to the run's files, no
\* exception is recorded, and a run of _generate_all_feeds is back at the
\* head of its loop with the feeds still to visit unchanged.
GeneratorFailed(c) == c # NoCall /\ c.generated /\ c.filepath = None

C25_GeneratorFailureIsSkipped ==
    [][\A t \in Tasks :
          (pc[t] = "feed" /\ pc'[t] # "feed" /\ GeneratorFailed(last'[t]))
          => /\ last'[t].res = "none"
             /\ registry' = registry
             /\ session' = session
             /\ files' = files
             /\ exc' = exc
             /\ kind[t] # "single" => (pc'[t] = "loop" /\ queue' = queue)]_vars

\* The generator failed for a feed that has a row in the registry, and the
\* run has another feed to visit.
C25_Witness ==
    /\ GeneratorFailed(last["timer"])
    /\ pc["timer"] = "loop" /\ queue["timer"] # <<>>
    /\ \E r \in registry : r.feed_id = last["timer"].feed

\* C26: the number of articles a generate_feed call fetched is at most the
\* feed's max_articles, and at most the default when max_articles is unset.
ConfiguredCap(f) ==
    IF feeds[f].max_articles = Null THEN DefaultMaxArticles ELSE feeds[f].max_articles[1]

C26_FetchedAtMostCap ==
    \A t \in Tasks : Finished(t) => last[t].n <= ConfiguredCap(last[t].feed)

\* C27: every generate_feed call that is entered returns to its caller, with
\* a path, None or an error.
C27_GenerateFeedReturns ==
    (pc["req"] = "feed") ~> (pc["req"] = "done")

\* C28: within one _process_entry call the article page is requested at
\* most once and an image URL whose download failed is requested once.
Count(q, x) == Cardinality({i \in DOMAIN q : q[i] = x})

Occurrences(e, matches, u) ==
    Count([i \in DOMAIN matches |-> urljoin(e.link, matches[i])], u)
        + (IF e.thumbnail = u THEN 1 ELSE 0)

SourceUrls(parsed) ==
    LET IsImageMedia(m) == m.medium = "image" \/ m.type \in ImageTypes
        IsImageTyped(x) == x.type \in ImageTypes
        HasSrc(img) == img # Absent
        mc == FirstIndex(parsed.media_content, IsImageMedia)
        en == FirstIndex(parsed.enclosures, IsImageTyped)
        im == FirstIndex(parsed.summary, HasSrc)
        ln == FirstIndex(parsed.links, IsImageTyped)
    IN  << IF parsed.media_thumbnail = <<>> THEN Absent
           ELSE parsed.media_thumbnail[MaxWidthIndex(parsed.media_thumbnail)].url,
           IF mc = 0 THEN Absent ELSE parsed.media_content[mc].url,
           IF en = 0 THEN Absent
           ELSE IF parsed.enclosures[en].href # Absent THEN parsed.enclosures[en].href
           ELSE parsed.enclosures[en].url,
           IF im = 0 THEN Absent ELSE parsed.summary[im],
           IF ln = 0 THEN Absent ELSE parsed.links[ln].href >>

C29_FirstSourceWithUrl ==
    entry # NoEntry =>
        LET urls == SourceUrls(entry.parsed)
            IsUrl(u) == u # Absent
            first == FirstIndex(urls, IsUrl)
        IN  entry.thumbnail_url = (IF first = 0 THEN NoUrl ELSE urls[first])

\* C30: while generate_feed runs interleave with delete_book requests that
\* ask for the file to be deleted, the file of every committed registry row
\* exists on disk.
C30_RegistryFilesExist ==
    \A r \in registry : r.file_path \in disk
====
